---- MODULE Spec2Model ----
(***************************************************************************)
(* Model of slowfast/tools/train_net.py: the Trainer's epoch loop          *)
(* (trainImpl), one training epoch (train_epoch), one evaluation epoch     *)
(* (eval_epoch), the pipeline rebuild (build_trainer) and plotStats.       *)
(*                                                                         *)
(* Spec      one worker's run of trainImpl, statement group by statement   *)
(*           group, with the calls it makes recorded in `trace`.           *)
(* SpecDist  several workers running the epoch loop side by side, with the *)
(*           collective operations they issue and the values reduced.      *)
(* SpecPlot  plotStats over a bounded stats dictionary.                    *)
(* SpecBN    the run of Spec over the precise-BN batch counts and loader   *)
(*           lengths.                                                      *)
(* SpecIte   the run of Spec over the batch sizes, with the sample indices *)
(*           handed to plotStats.                                          *)
(***************************************************************************)
EXTENDS Integers, Sequences, FiniteSets, TLC

(***************************************************************************)
(* Bounds of the model.                                                    *)
(***************************************************************************)
\* largest SOLVER.MAX_EPOCH and largest start epoch explored
MaxEpoch == 2
\* largest number of batches the train loader yields
MaxBatches == 2
\* largest number of batches the val loader yields
MaxValBatches == 1
\* number of keys a stats dictionary may hold
MaxStats == 2

VARIABLES
    cfg,          \* the configuration values the control flow reads
    start_epoch,  \* what load_train_checkpoint returned
    pc,           \* position of the worker in trainImpl / train_epoch / eval_epoch
    cur_epoch,    \* loop variable of trainImpl
    cur_iter,     \* loop variable of train_epoch / eval_epoch
    objs,         \* identity of the seven pipeline objects
    prevObjs,     \* their identity when the current epoch began
    model,        \* [rebuilt, loaded, mode, hasBN] of the current model
    meters,       \* kind and logger of train_meter and val_meter
    lens,         \* len(train_loader), len(val_loader)
    changed,      \* second result of multigrid.update_long_cycle in this epoch
    ckptDue,      \* result of cu.is_checkpoint_epoch in this epoch
    evalDue,      \* result of misc.is_eval_epoch in this epoch
    loss,         \* the loss of the current iteration: "finite" or "nan"
    abortCause,   \* why the run aborted: "none", "nan" or "assert"
    trace,        \* calls made since the current epoch began, in order
    trained,      \* epochs train_epoch was called for, in call order
    epCnt,        \* trainImpl's epCnt
    precise,      \* BN.NUM_BATCHES_PRECISE, len(precise_bn_loader), num_iters of this epoch
    btch,         \* TRAIN.BATCH_SIZE * NUM_SHARDS
    meterUse,     \* train_meter and val_meter: "reset" or "used"
    ite,          \* per plotted series: the last two sample indices handed to plotStats
    envSets,      \* the values the configuration and construct_loader may produce
    wk,           \* SpecDist: each worker's position and local variables
    evalSched,    \* SpecDist: misc.is_eval_epoch per epoch, the same on all workers
    elapsedSet,   \* SpecDist: the epoch durations a worker may measure
    plot          \* SpecPlot: the arguments and progress of one plotStats call

mainVars == <<cfg, start_epoch, pc, cur_epoch, cur_iter, objs, prevObjs, model,
              meters, lens, changed, ckptDue, evalDue, loss, abortCause, trace,
              trained, epCnt, precise, btch, meterUse, ite, envSets>>

otherVars == <<wk, evalSched, elapsedSet, plot>>

vars == <<mainVars, wk, evalSched, elapsedSet, plot>>

(***************************************************************************)
(* Helpers.                                                                *)
(***************************************************************************)
\* one recorded call: its name and the iteration it belongs to (-1: none)
Ev(op, it) == [op |-> op, it |-> it]

Evs(ops, it) == [i \in 1..Len(ops) |-> Ev(ops[i], it)]

PipelineObjects ==
    {"model", "optimizer", "train_loader", "val_loader", "precise_bn_loader",
     "train_meter", "val_meter"}

CfgSet ==
    [DETECTION_ENABLE : BOOLEAN, MULTI_LABEL : BOOLEAN, NUM_GPUS : {1, 2},
     LONG_CYCLE : BOOLEAN, USE_PRECISE_STATS : BOOLEAN, MAX_EPOCH : 0..MaxEpoch]

\* the meters trainImpl creates
InitialMeters(c) ==
    IF c.DETECTION_ENABLE
    THEN [train_meter |-> [kind |-> "AVAMeter", logger |-> FALSE],
          val_meter   |-> [kind |-> "AVAMeter", logger |-> FALSE]]
    ELSE [train_meter |-> [kind |-> "TrainMeter", logger |-> TRUE],
          val_meter   |-> [kind |-> "ValMeter", logger |-> TRUE]]

\* the meters build_trainer creates
RebuiltMeters(c) ==
    [train_meter |-> [kind |-> "TrainMeter", logger |-> FALSE],
     val_meter   |-> [kind |-> "ValMeter", logger |-> FALSE]]

\* build_trainer: all seven objects are new
\* the loader lengths construct_loader may produce
LensSet == [train : 1..MaxBatches, val : 1..MaxValBatches]

BuildTrainerObjs(o) == [k \in PipelineObjects |-> o[k] + 1]

\* misc.check_nan_losses raises on a NaN loss
check_nan_losses(l) == l = "nan"

\* Python's min on integers
Min(a, b) == IF b < a THEN b ELSE a

\* mutant: the configured number of batches is requested as it is
NumItersConfigured(nbp, len) == nbp

\* line 540: min(cfg.BN.NUM_BATCHES_PRECISE, len(precise_bn_loader))
NumItersRequested(nbp, len) == Min(nbp, len)

\* BN.NUM_BATCHES_PRECISE and TRAIN.BATCH_SIZE * NUM_SHARDS explored
PreciseBatchCounts == {1, 3}

BatchSizes == {1, 2}

\* mutant: the index of an iteration counts the batches before it
IterIndexBefore(dSize, b, e, i) == dSize * e + b * i

\* lines 199 and 328: ite = dSize * cur_epoch + btch * (cur_iter+1)
IterIndex(dSize, b, e, i) == dSize * e + b * (i + 1)

\* lines 208 and 336: ite = (cur_epoch+1) * dSize
EpochIndex(dSize, e) == (e + 1) * dSize

\* a series before its first plotStats call
NoIte ==
    [prev |-> 0, prevKind |-> "none", prevDSize |-> 0,
     last |-> 0, kind |-> "none", dSize |-> 0]

\* plotStats is handed index i, computed with dSize d, for a row of this kind
LogIte(s, kind, i, d) ==
    [prev |-> s.last, prevKind |-> s.kind, prevDSize |-> s.dSize,
     last |-> i, kind |-> kind, dSize |-> d]

\* the indices of a series after one more plotStats call, when the series is
\* among those whose indices are recorded
Logged(series, kind, i, d) ==
    IF series \in envSets.series
    THEN [ite EXCEPT ![series] = LogIte(@, kind, i, d)]
    ELSE ite

\* lines 474-489: the batch counts, the batch size and the fresh meters
EnvInit(nbps, bnlens, btchs, series) ==
    /\ envSets = [nbp |-> nbps, bnlen |-> bnlens, btch |-> btchs, series |-> series]
    /\ precise \in [NUM_BATCHES_PRECISE : nbps, len : bnlens, num_iters : {0}]
    /\ btch \in btchs
    /\ meterUse = [train_meter |-> "reset", val_meter |-> "reset"]
    /\ ite = [train |-> NoIte, val |-> NoIte]

\* mutant: the checkpoint is saved before the BN statistics are finished
StepAfterSaveFirst(p) ==
    CASE p = "shuffle" -> "train"
      [] p = "train" -> "ckpt"
      [] p = "ckpt" -> "bn"
      [] p = "bn" -> "evalq"

\* trainImpl's loop body after the shuffle, lines 529-554: what follows what
StepAfter(p) ==
    CASE p = "shuffle" -> "train"
      [] p = "train" -> "bn"
      [] p = "bn" -> "ckpt"
      [] p = "ckpt" -> "evalq"

\* mutant: the loop starts at epoch 0 whatever load_train_checkpoint returned
MainInitFromZero ==
    /\ cfg \in CfgSet
    /\ start_epoch \in 0..MaxEpoch
    /\ pc = "loop"
    /\ cur_epoch = 0
    /\ cur_iter = 0
    /\ objs = [k \in PipelineObjects |-> 0]
    /\ prevObjs = objs
    /\ \E bn \in BOOLEAN :
         model = [rebuilt |-> FALSE, loaded |-> start_epoch > 0, mode |-> "train", hasBN |-> bn]
    /\ meters = InitialMeters(cfg)
    /\ lens \in LensSet
    /\ changed = FALSE
    /\ ckptDue = FALSE
    /\ evalDue = FALSE
    /\ loss = "finite"
    /\ abortCause = "none"
    /\ trace = << >>
    /\ trained = << >>
    /\ epCnt = 0

\* lines 436-501: the state trainImpl has built when its loop begins
MainInit ==
    /\ cfg \in CfgSet
    /\ start_epoch \in 0..MaxEpoch
    /\ pc = "loop"
    /\ cur_epoch = start_epoch
    /\ cur_iter = 0
    /\ objs = [k \in PipelineObjects |-> 0]
    /\ prevObjs = objs
    /\ \E bn \in BOOLEAN :
         model = [rebuilt |-> FALSE, loaded |-> start_epoch > 0, mode |-> "train", hasBN |-> bn]
    /\ meters = InitialMeters(cfg)
    /\ lens \in LensSet
    /\ changed = FALSE
    /\ ckptDue = FALSE
    /\ evalDue = FALSE
    /\ loss = "finite"
    /\ abortCause = "none"
    /\ trace = << >>
    /\ trained = << >>
    /\ epCnt = 0

(***************************************************************************)
(* trainImpl, lines 502-561.                                               *)
(***************************************************************************)
\* mutant: without a checkpoint in the output directory nothing is loaded
RebuildLoadsOnlyFromOutputDir ==
    /\ objs' = BuildTrainerObjs(objs)
    /\ meters' = RebuiltMeters(cfg)
    /\ \E l \in LensSet : lens' = l
    /\ \E l \in envSets.bnlen : precise' = [precise EXCEPT !.len = l, !.num_iters = 0]
    /\ \E b \in envSets.btch : btch' = b
    /\ meterUse' = [train_meter |-> "reset", val_meter |-> "reset"]
    /\ \E has_checkpoint \in BOOLEAN, name_matches \in BOOLEAN :
          IF has_checkpoint /\ ~name_matches
          THEN /\ model' = [rebuilt |-> TRUE, loaded |-> FALSE, mode |-> "train", hasBN |-> model.hasBN]
               /\ trace' = Evs(<<"update_long_cycle", "build_trainer">>, -1)
               /\ pc' = "aborted"
               /\ abortCause' = "assert"
          ELSE /\ model' = [rebuilt |-> TRUE, loaded |-> has_checkpoint, mode |-> "train",
                            hasBN |-> model.hasBN]
               /\ trace' = Evs(<<"update_long_cycle", "build_trainer">>, -1) \o
                           (IF has_checkpoint THEN Evs(<<"load_checkpoint">>, -1) ELSE << >>)
               /\ pc' = "shuffle"
               /\ abortCause' = abortCause

\* the rebuild of lines 506-525 once update_long_cycle reported a change
Rebuild ==
    /\ objs' = BuildTrainerObjs(objs)
    /\ meters' = RebuiltMeters(cfg)
    /\ \E l \in LensSet : lens' = l
    /\ \E l \in envSets.bnlen : precise' = [precise EXCEPT !.len = l, !.num_iters = 0]
    /\ \E b \in envSets.btch : btch' = b
    /\ meterUse' = [train_meter |-> "reset", val_meter |-> "reset"]
    /\ \E has_checkpoint \in BOOLEAN, name_matches \in BOOLEAN :
          IF has_checkpoint /\ ~name_matches
          THEN \* the assert of line 519 fails
               /\ model' = [rebuilt |-> TRUE, loaded |-> FALSE, mode |-> "train", hasBN |-> model.hasBN]
               /\ trace' = Evs(<<"update_long_cycle", "build_trainer">>, -1)
               /\ pc' = "aborted"
               /\ abortCause' = "assert"
          ELSE /\ model' = [rebuilt |-> TRUE, loaded |-> TRUE, mode |-> "train", hasBN |-> model.hasBN]
               /\ trace' = Evs(<<"update_long_cycle", "build_trainer", "load_checkpoint">>, -1)
               /\ pc' = "shuffle"
               /\ abortCause' = abortCause

\* lines 502-525: the loop head and the multigrid long-cycle update
UpdateLongCycle ==
    /\ pc = "loop"
    /\ cur_epoch < cfg.MAX_EPOCH
    /\ prevObjs' = objs
    /\ ckptDue' = FALSE
    /\ evalDue' = FALSE
    /\ IF cfg.LONG_CYCLE
       THEN \E ch \in BOOLEAN :
              /\ changed' = ch
              /\ IF ch
                 THEN Rebuild
                 ELSE /\ trace' = Evs(<<"update_long_cycle">>, -1)
                      /\ pc' = "shuffle"
                      /\ precise' = [precise EXCEPT !.num_iters = 0]
                      /\ UNCHANGED <<objs, meters, lens, model, abortCause, btch, meterUse>>
       ELSE /\ changed' = FALSE
            /\ trace' = << >>
            /\ pc' = "shuffle"
            /\ precise' = [precise EXCEPT !.num_iters = 0]
            /\ UNCHANGED <<objs, meters, lens, model, abortCause, btch, meterUse>>
    /\ UNCHANGED <<otherVars, ite, envSets>>
    /\ UNCHANGED <<cfg, start_epoch, cur_epoch, cur_iter, loss, trained, epCnt>>

\* line 528
ShuffleDataset ==
    /\ pc = "shuffle"
    /\ trace' = Append(trace, Ev("shuffle_dataset", -1))
    /\ pc' = StepAfter("shuffle")
    /\ UNCHANGED otherVars
    /\ UNCHANGED <<precise, btch, meterUse, ite, envSets>>
    /\ UNCHANGED <<cfg, start_epoch, cur_epoch, cur_iter, objs, prevObjs, model, meters,
                   lens, changed, ckptDue, evalDue, loss, abortCause, trained, epCnt>>

(***************************************************************************)
(* train_epoch, lines 47-220.                                              *)
(***************************************************************************)
\* mutant: train_epoch leaves the model in the mode it finds it in
TrainEpochBeginKeepsMode ==
    /\ pc = "train"
    /\ trace' = trace \o Evs(<<"train_epoch", "model_train", "iter_tic">>, -1)
    /\ model' = model
    /\ trained' = Append(trained, cur_epoch)
    /\ cur_iter' = 0
    /\ pc' = "iter"
    /\ meterUse' = [meterUse EXCEPT !.train_meter = "used"]
    /\ UNCHANGED <<otherVars, precise, btch, ite, envSets>>
    /\ UNCHANGED <<cfg, start_epoch, cur_epoch, objs, prevObjs, meters, lens, changed,
                   ckptDue, evalDue, loss, abortCause, epCnt>>

\* lines 530, 64-78: the call, model.train(), the first iter_tic
TrainEpochBegin ==
    /\ pc = "train"
    /\ trace' = trace \o Evs(<<"train_epoch", "model_train", "iter_tic">>, -1)
    /\ model' = [model EXCEPT !.mode = "train"]
    /\ trained' = Append(trained, cur_epoch)
    /\ cur_iter' = 0
    /\ pc' = "iter"
    /\ UNCHANGED otherVars
    /\ meterUse' = [meterUse EXCEPT !.train_meter = "used"]
    /\ UNCHANGED <<precise, btch, ite, envSets>>
    /\ UNCHANGED <<cfg, start_epoch, cur_epoch, objs, prevObjs, meters, lens, changed,
                   ckptDue, evalDue, loss, abortCause, epCnt>>

\* mutant: the result of the NaN check is ignored
IterForwardIgnoresNan ==
    /\ pc = "iter"
    /\ cur_iter < lens.train
    /\ \E l \in {"finite", "nan"} :
         /\ loss' = l
         /\ trace' = trace \o Evs(<<"set_lr", "forward", "loss", "check_nan_losses">>, cur_iter)
         /\ pc' = "backward"
         /\ abortCause' = abortCause
    /\ UNCHANGED otherVars
    /\ UNCHANGED <<precise, btch, meterUse, ite, envSets>>
    /\ UNCHANGED <<cfg, start_epoch, cur_epoch, cur_iter, objs, prevObjs, model, meters,
                   lens, changed, ckptDue, evalDue, trained, epCnt>>

\* lines 80-122: learning rate, forward pass, loss, NaN check
IterForward ==
    /\ pc = "iter"
    /\ cur_iter < lens.train
    /\ \E l \in {"finite", "nan"} :
         /\ loss' = l
         /\ trace' = trace \o Evs(<<"set_lr", "forward", "loss", "check_nan_losses">>, cur_iter)
         /\ IF check_nan_losses(l)
            THEN pc' = "aborted" /\ abortCause' = "nan"
            ELSE pc' = "backward" /\ abortCause' = abortCause
    /\ UNCHANGED otherVars
    /\ UNCHANGED <<precise, btch, meterUse, ite, envSets>>
    /\ UNCHANGED <<cfg, start_epoch, cur_epoch, cur_iter, objs, prevObjs, model, meters,
                   lens, changed, ckptDue, evalDue, trained, epCnt>>

\* lines 124-128
IterBackward ==
    /\ pc = "backward"
    /\ trace' = trace \o Evs(<<"zero_grad", "backward", "optimizer_step">>, cur_iter)
    /\ pc' = "stats"
    /\ UNCHANGED otherVars
    /\ UNCHANGED <<precise, btch, meterUse, ite, envSets>>
    /\ UNCHANGED <<cfg, start_epoch, cur_epoch, cur_iter, objs, prevObjs, model, meters,
                   lens, changed, ckptDue, evalDue, loss, abortCause, trained, epCnt>>

\* mutant: the meter is updated before the metrics are reduced
TrainStatsOpsUpdateFirst(c) ==
    LET reduce == IF c.NUM_GPUS > 1 THEN <<"all_reduce">> ELSE << >>
    IN  IF c.DETECTION_ENABLE
        THEN reduce \o <<"iter_toc", "update_stats">>
        ELSE IF c.MULTI_LABEL
             THEN reduce \o <<"iter_toc", "update_stats">>
             ELSE <<"topks_correct", "iter_toc", "update_stats">> \o reduce

\* mutant: the multi-label branch updates the meter without stopping its timer
TrainStatsOpsNoToc(c) ==
    LET reduce == IF c.NUM_GPUS > 1 THEN <<"all_reduce">> ELSE << >>
    IN  IF c.DETECTION_ENABLE
        THEN reduce \o <<"iter_toc", "update_stats">>
        ELSE IF c.MULTI_LABEL
             THEN reduce \o <<"update_stats">>
             ELSE <<"topks_correct">> \o reduce \o <<"iter_toc", "update_stats">>

\* lines 130-185: the calls of the three configuration branches
TrainStatsOps(c) ==
    LET reduce == IF c.NUM_GPUS > 1 THEN <<"all_reduce">> ELSE << >>
    IN  IF c.DETECTION_ENABLE
        THEN reduce \o <<"iter_toc", "update_stats">>
        ELSE IF c.MULTI_LABEL
             THEN reduce \o <<"iter_toc", "update_stats">>
             ELSE <<"topks_correct">> \o reduce \o <<"iter_toc", "update_stats">>

\* lines 130-196
IterStats ==
    /\ pc = "stats"
    /\ trace' = trace \o Evs(TrainStatsOps(cfg), cur_iter)
    /\ pc' = "log"
    /\ UNCHANGED otherVars
    /\ UNCHANGED <<precise, btch, meterUse, ite, envSets>>
    /\ UNCHANGED <<cfg, start_epoch, cur_epoch, cur_iter, objs, prevObjs, model, meters,
                   lens, changed, ckptDue, evalDue, loss, abortCause, trained, epCnt>>

\* lines 198-201
IterLog ==
    /\ pc = "log"
    /\ trace' = trace \o Evs(<<"log_iter_stats", "plotStats", "iter_tic">>, cur_iter)
    /\ cur_iter' = cur_iter + 1
    /\ pc' = "iter"
    /\ UNCHANGED otherVars
    /\ ite' = Logged("train", "iter",
                     IterIndex(lens.train * btch, btch, cur_epoch, cur_iter),
                     lens.train * btch)
    /\ UNCHANGED <<precise, btch, meterUse, envSets>>
    /\ UNCHANGED <<cfg, start_epoch, cur_epoch, objs, prevObjs, model, meters, lens,
                   changed, ckptDue, evalDue, loss, abortCause, trained, epCnt>>

\* lines 203-220 and the return to lines 530-533
TrainEpochEnd ==
    /\ pc = "iter"
    /\ cur_iter = lens.train
    /\ trace' = trace \o Evs(<<"all_gather", "log_epoch_stats", "plotStats", "reset",
                               "all_reduce_sum", "all_reduce_max", "train_epoch_end">>, -1)
    /\ epCnt' = epCnt + 1
    /\ pc' = StepAfter("train")
    /\ UNCHANGED otherVars
    /\ ite' = Logged("train", "epoch",
                     EpochIndex(lens.train * btch, cur_epoch), lens.train * btch)
    /\ meterUse' = [meterUse EXCEPT !.train_meter = "reset"]
    /\ UNCHANGED <<precise, btch, envSets>>
    /\ UNCHANGED <<cfg, start_epoch, cur_epoch, cur_iter, objs, prevObjs, model, meters,
                   lens, changed, ckptDue, evalDue, loss, abortCause, trained>>

(***************************************************************************)
(* trainImpl after train_epoch, lines 535-554.                             *)
(***************************************************************************)
\* lines 535-542: precise BN statistics when enabled, then aggregate_sub_bn_stats
BNStats ==
    /\ pc = "bn"
    /\ trace' = trace \o
                (IF cfg.USE_PRECISE_STATS /\ model.hasBN
                 THEN Evs(<<"calculate_and_update_precise_bn">>, -1) ELSE << >>) \o
                Evs(<<"aggregate_sub_bn_stats">>, -1)
    /\ pc' = StepAfter("bn")
    /\ UNCHANGED otherVars
    /\ precise' = [precise EXCEPT !.num_iters =
                        IF cfg.USE_PRECISE_STATS /\ model.hasBN
                        THEN NumItersRequested(precise.NUM_BATCHES_PRECISE, precise.len)
                        ELSE 0]
    /\ UNCHANGED <<btch, meterUse, ite, envSets>>
    /\ UNCHANGED <<cfg, start_epoch, cur_epoch, cur_iter, objs, prevObjs, model, meters,
                   lens, changed, ckptDue, evalDue, loss, abortCause, trained, epCnt>>

\* lines 544-549
SaveCheckpoint ==
    /\ pc = "ckpt"
    /\ \E due \in BOOLEAN :
         /\ ckptDue' = due
         /\ trace' = trace \o Evs(<<"is_checkpoint_epoch">>, -1) \o
                     (IF due THEN Evs(<<"save_checkpoint">>, -1) ELSE << >>)
    /\ pc' = StepAfter("ckpt")
    /\ UNCHANGED otherVars
    /\ UNCHANGED <<precise, btch, meterUse, ite, envSets>>
    /\ UNCHANGED <<cfg, start_epoch, cur_epoch, cur_iter, objs, prevObjs, model, meters,
                   lens, changed, evalDue, loss, abortCause, trained, epCnt>>

\* lines 550-554: the decision; without evaluation the loop goes on to the next epoch
EvalDecision ==
    /\ pc = "evalq"
    /\ \E due \in BOOLEAN :
         /\ evalDue' = due
         /\ trace' = Append(trace, Ev("is_eval_epoch", -1))
         /\ IF due
            THEN pc' = "eval" /\ cur_epoch' = cur_epoch
            ELSE pc' = "loop" /\ cur_epoch' = cur_epoch + 1
    /\ UNCHANGED otherVars
    /\ UNCHANGED <<precise, btch, meterUse, ite, envSets>>
    /\ UNCHANGED <<cfg, start_epoch, cur_iter, objs, prevObjs, model, meters, lens,
                   changed, ckptDue, loss, abortCause, trained, epCnt>>

(***************************************************************************)
(* eval_epoch, lines 222-355.                                              *)
(***************************************************************************)
\* lines 554, 238-250
EvalEpochBegin ==
    /\ pc = "eval"
    /\ trace' = trace \o Evs(<<"eval_epoch", "model_eval", "iter_tic">>, -1)
    /\ model' = [model EXCEPT !.mode = "eval"]
    /\ cur_iter' = 0
    /\ pc' = "eval_iter"
    /\ UNCHANGED otherVars
    /\ meterUse' = [meterUse EXCEPT !.val_meter = "used"]
    /\ UNCHANGED <<precise, btch, ite, envSets>>
    /\ UNCHANGED <<cfg, start_epoch, cur_epoch, objs, prevObjs, meters, lens, changed,
                   ckptDue, evalDue, loss, abortCause, trained, epCnt>>

\* lines 267-325: the calls of the three configuration branches
EvalStatsOps(c) ==
    IF c.DETECTION_ENABLE
    THEN <<"forward">> \o
         (IF c.NUM_GPUS > 1
          THEN <<"all_gather_unaligned", "all_gather_unaligned", "all_gather_unaligned">>
          ELSE << >>) \o
         <<"iter_toc", "update_stats">>
    ELSE <<"forward">> \o
         (IF c.MULTI_LABEL
          THEN (IF c.NUM_GPUS > 1 THEN <<"all_gather">> ELSE << >>)
          ELSE <<"topks_correct">> \o
               (IF c.NUM_GPUS > 1 THEN <<"all_reduce">> ELSE << >>) \o
               <<"iter_toc", "update_stats">>) \o
         <<"update_predictions">>

\* lines 252-331: one iteration over a validation batch
EvalIter ==
    /\ pc = "eval_iter"
    /\ cur_iter < lens.val
    /\ trace' = trace \o Evs(EvalStatsOps(cfg), cur_iter) \o
                Evs(<<"log_iter_stats", "plotStats", "iter_tic">>, cur_iter)
    /\ cur_iter' = cur_iter + 1
    /\ UNCHANGED otherVars
    /\ ite' = Logged("val", "iter",
                     IterIndex(lens.val * btch, btch, cur_epoch, cur_iter),
                     lens.val * btch)
    /\ UNCHANGED <<precise, btch, meterUse, envSets>>
    /\ UNCHANGED <<cfg, start_epoch, pc, cur_epoch, objs, prevObjs, model, meters, lens,
                   changed, ckptDue, evalDue, loss, abortCause, trained, epCnt>>

\* lines 333-355, and the loop's step to the next epoch
EvalEpochEnd ==
    /\ pc = "eval_iter"
    /\ cur_iter = lens.val
    /\ trace' = trace \o Evs(<<"all_gather", "log_epoch_stats", "plotStats", "reset",
                               "eval_epoch_end">>, -1)
    /\ cur_epoch' = cur_epoch + 1
    /\ pc' = "loop"
    /\ UNCHANGED otherVars
    /\ ite' = Logged("val", "epoch",
                     EpochIndex(lens.val * btch, cur_epoch), lens.val * btch)
    /\ meterUse' = [meterUse EXCEPT !.val_meter = "reset"]
    /\ UNCHANGED <<precise, btch, envSets>>
    /\ UNCHANGED <<cfg, start_epoch, cur_iter, objs, prevObjs, model, meters, lens,
                   changed, ckptDue, evalDue, loss, abortCause, trained, epCnt>>

\* lines 556-561: the loop is over
LoopExit ==
    /\ pc = "loop"
    /\ cur_epoch >= cfg.MAX_EPOCH
    /\ pc' = "done"
    /\ UNCHANGED otherVars
    /\ UNCHANGED <<precise, btch, meterUse, ite, envSets>>
    /\ UNCHANGED <<cfg, start_epoch, cur_epoch, cur_iter, objs, prevObjs, model, meters,
                   lens, changed, ckptDue, evalDue, loss, abortCause, trace, trained, epCnt>>

Init ==
    /\ MainInit
    /\ EnvInit({1}, {1}, {1}, {})
    /\ wk = << >>
    /\ evalSched = << >>
    /\ elapsedSet = {}
    /\ plot = << >>

Next ==
    \/ UpdateLongCycle
    \/ ShuffleDataset
    \/ TrainEpochBegin
    \/ IterForward
    \/ IterBackward
    \/ IterStats
    \/ IterLog
    \/ TrainEpochEnd
    \/ BNStats
    \/ SaveCheckpoint
    \/ EvalDecision
    \/ EvalEpochBegin
    \/ EvalIter
    \/ EvalEpochEnd
    \/ LoopExit

Spec == Init /\ [][Next]_vars

\* lines 436-501 over the precise-BN batch counts and loader lengths, in the
\* single-GPU classification branch
BNInit ==
    /\ MainInit
    /\ cfg.NUM_GPUS = 1 /\ ~cfg.DETECTION_ENABLE /\ ~cfg.MULTI_LABEL
    /\ EnvInit(PreciseBatchCounts, 1..MaxBatches, {1}, {})
    /\ wk = << >>
    /\ evalSched = << >>
    /\ elapsedSet = {}
    /\ plot = << >>

SpecBN == BNInit /\ [][Next]_vars

\* lines 436-501 over the batch sizes, in the single-GPU classification branch
\* without precise BN statistics
IteInit ==
    /\ MainInit
    /\ cfg.NUM_GPUS = 1 /\ ~cfg.DETECTION_ENABLE /\ ~cfg.MULTI_LABEL
    /\ ~cfg.USE_PRECISE_STATS
    /\ EnvInit({1}, {1}, BatchSizes, {"train", "val"})
    /\ wk = << >>
    /\ evalSched = << >>
    /\ elapsedSet = {}
    /\ plot = << >>

SpecIte == IteInit /\ [][Next]_vars

(***************************************************************************)
(* The workers of a distributed run (SpecDist, SpecRate).  Each runs       *)
(* trainImpl's loop: train_epoch, then eval_epoch when due.  A worker's    *)
(* statements between two collective operations are one step; a collective *)
(* operation completes when every worker has entered the same one.         *)
(***************************************************************************)
Workers == {1, 2}

\* du.is_master_proc(): the worker of rank 0
IsMaster(w) == w = 1

\* len(labels) of a worker's batches, and the elapsed seconds of an epoch
LabelCounts == {1, 2}

ElapsedValues == {1, 2}

\* the calls that are collective operations of du
CollectiveOps ==
    {"all_reduce", "all_gather", "all_gather_unaligned", "all_reduce_sum", "all_reduce_max"}

\* mutant: a reduction inside a branch only the master process takes
MasterOnlyCollsReduce == <<"all_reduce">>

\* lines 145-147, 203-204, 320-323 and plotStats (34-45): the collective
\* operations inside the branches guarded by du.is_master_proc(): none
MasterOnlyColls == << >>

\* lines 130-201: the collective operations of one training iteration
TrainIterColls(c, master) ==
    SelectSeq(TrainStatsOps(c), LAMBDA op : op \in CollectiveOps) \o
    (IF master THEN MasterOnlyColls ELSE << >>)

\* lines 267-331: the collective operations of one evaluation iteration
EvalIterColls(c, master) ==
    SelectSeq(EvalStatsOps(c), LAMBDA op : op \in CollectiveOps) \o
    (IF master THEN MasterOnlyColls ELSE << >>)

\* lines 203-216: the collective operations after the last training batch
TrainEndColls(master) ==
    (IF master THEN MasterOnlyColls ELSE << >>) \o
    <<"all_gather", "all_reduce_sum", "all_reduce_max">>

\* exact fractions <<numerator, denominator>> for the rates
RatAdd(a, b) == <<a[1] * b[2] + b[1] * a[2], a[2] * b[2]>>

RatDivInt(a, n) == <<a[1], a[2] * n>>

RatEq(a, b) == a[1] * b[2] = b[1] * a[2]

RECURSIVE SumOf(_, _)
SumOf(f, S) ==
    IF S = {} THEN 0
    ELSE LET x == CHOOSE y \in S : TRUE IN f[x] + SumOf(f, S \ {x})

MaxOf(f, S) == CHOOSE m \in {f[x] : x \in S} : \A x \in S : f[x] <= m

\* du.all_reduce as called in lines 213 (average=False: the sum) and 216
\* (op=MAX, average=False: the maximum); the other results are not used here
AllReduce(op, vals) ==
    CASE op = "all_reduce_sum" -> SumOf(vals, Workers)
      [] op = "all_reduce_max" -> MaxOf(vals, Workers)
      [] OTHER -> 0

NoPend == [op |-> "none", val |-> 0]

\* the main worker's variables, unused while the distributed run is explored
MainIdle ==
    /\ pc = "dist"
    /\ cur_epoch = 0
    /\ cur_iter = 0
    /\ objs = [k \in PipelineObjects |-> 0]
    /\ prevObjs = objs
    /\ model = [rebuilt |-> FALSE, loaded |-> FALSE, mode |-> "train", hasBN |-> FALSE]
    /\ meters = InitialMeters(cfg)
    /\ changed = FALSE
    /\ ckptDue = FALSE
    /\ evalDue = FALSE
    /\ loss = "finite"
    /\ abortCause = "none"
    /\ trace = << >>
    /\ trained = << >>
    /\ epCnt = 0
    /\ EnvInit({1}, {1}, {1}, {})

\* each worker when trainImpl's loop begins (lines 499-501)
WorkersAtLoop(b) ==
    [w \in Workers |->
       [pc |-> "loop", epoch |-> start_epoch, iter |-> 0, bsz |-> b[w], tot |-> 0,
        el |-> 0, todo |-> << >>, pend |-> NoPend, tSum |-> 0, elMax |-> 0,
        colls |-> << >>, rates |-> << >>, contribs |-> << >>,
        avgRate |-> <<0, 1>>, epCnt |-> 0, report |-> <<0, 1>>]]

\* lines 436-501 on every worker, over all configurations: the same
\* configuration, start epoch and loader lengths everywhere
DistInit ==
    /\ cfg \in {c \in CfgSet : ~c.LONG_CYCLE /\ ~c.USE_PRECISE_STATS}
    /\ start_epoch \in 0..MaxEpoch
    /\ lens \in LensSet
    /\ evalSched = [e \in 0..(MaxEpoch - 1) |-> "unset"]
    /\ elapsedSet = {1}
    /\ wk = WorkersAtLoop([w \in Workers |-> 1])
    /\ MainIdle
    /\ plot = << >>

\* lines 436-501 on every worker, over all batch sizes and epoch durations
RateInit ==
    /\ cfg \in {c \in CfgSet : /\ ~c.LONG_CYCLE /\ ~c.USE_PRECISE_STATS
                               /\ ~c.DETECTION_ENABLE /\ ~c.MULTI_LABEL}
    /\ start_epoch \in 0..MaxEpoch
    /\ lens = [train |-> 1, val |-> 1]
    /\ evalSched = [e \in 0..(MaxEpoch - 1) |-> "unset"]
    /\ elapsedSet = ElapsedValues
    /\ \E b \in [Workers -> LabelCounts] : wk = WorkersAtLoop(b)
    /\ MainIdle
    /\ plot = << >>

distFrame == <<mainVars, elapsedSet, plot>>

Drained(w) == wk[w].todo = << >> /\ wk[w].pend = NoPend

\* lines 502, 530, 64-78: the next epoch begins
DEpochBegin(w) ==
    /\ wk[w].pc = "loop"
    /\ wk[w].epoch < cfg.MAX_EPOCH
    /\ wk' = [wk EXCEPT ![w].pc = "iter", ![w].iter = 0, ![w].tot = 0]
    /\ UNCHANGED <<distFrame, evalSched>>

\* lines 80-201: one batch, with the collective operations it issues
DTrainIter(w) ==
    /\ wk[w].pc = "iter"
    /\ Drained(w)
    /\ wk[w].iter < lens.train
    /\ wk' = [wk EXCEPT ![w].iter = @ + 1,
                        ![w].tot = @ + wk[w].bsz,
                        ![w].todo = TrainIterColls(cfg, IsMaster(w))]
    /\ UNCHANGED <<distFrame, evalSched>>

\* lines 203-216: after the last batch the elapsed time is taken and the three
\* epoch-end collective operations are issued
DTrainEnd(w) ==
    /\ wk[w].pc = "iter"
    /\ Drained(w)
    /\ wk[w].iter = lens.train
    /\ \E el \in elapsedSet :
         wk' = [wk EXCEPT ![w].pc = "train_end", ![w].el = el,
                          ![w].contribs = Append(@, [tot |-> wk[w].tot, el |-> el]),
                          ![w].todo = TrainEndColls(IsMaster(w))]
    /\ UNCHANGED <<distFrame, evalSched>>

\* mutant: this worker's own sample count over the longest elapsed time
JobRateOwnCount(w) == <<wk[w].tot, wk[w].elMax>>

\* line 217: jobRate = tSum / elMax
JobRate(w) == <<wk[w].tSum, wk[w].elMax>>

\* lines 217-220 and 530-554: jobRate = tSum / elMax is returned and added to
\* avgRate; eval_epoch follows when is_eval_epoch (the same on every worker)
\* says so
DTrainReturn(w) ==
    /\ wk[w].pc = "train_end"
    /\ Drained(w)
    /\ \E due \in (IF evalSched[wk[w].epoch] = "unset" THEN {"yes", "no"}
                   ELSE {evalSched[wk[w].epoch]}) :
         /\ evalSched' = [evalSched EXCEPT ![wk[w].epoch] = due]
         /\ LET jobRate == JobRate(w)
            IN  wk' = [wk EXCEPT ![w].rates = Append(@, jobRate),
                                 ![w].avgRate = RatAdd(@, jobRate),
                                 ![w].epCnt = @ + 1,
                                 ![w].iter = 0,
                                 ![w].pc = IF due = "yes" THEN "eval_iter" ELSE "loop",
                                 ![w].epoch = IF due = "yes" THEN @ ELSE @ + 1]
    /\ UNCHANGED distFrame

\* lines 252-331: one validation batch, with the collective operations it issues
DEvalIter(w) ==
    /\ wk[w].pc = "eval_iter"
    /\ Drained(w)
    /\ wk[w].iter < lens.val
    /\ wk' = [wk EXCEPT ![w].iter = @ + 1,
                        ![w].todo = EvalIterColls(cfg, IsMaster(w))]
    /\ UNCHANGED <<distFrame, evalSched>>

\* lines 333-334: the all_gather after the last validation batch
DEvalEnd(w) ==
    /\ wk[w].pc = "eval_iter"
    /\ Drained(w)
    /\ wk[w].iter = lens.val
    /\ wk' = [wk EXCEPT ![w].pc = "eval_end", ![w].todo = <<"all_gather">>]
    /\ UNCHANGED <<distFrame, evalSched>>

\* lines 335-355: eval_epoch returns and the loop steps to the next epoch
DEvalReturn(w) ==
    /\ wk[w].pc = "eval_end"
    /\ Drained(w)
    /\ wk' = [wk EXCEPT ![w].pc = "loop", ![w].epoch = @ + 1]
    /\ UNCHANGED <<distFrame, evalSched>>

\* lines 556-561: the loop is over, 'jobRate' is logged
DLoopExit(w) ==
    /\ wk[w].pc = "loop"
    /\ wk[w].epoch >= cfg.MAX_EPOCH
    /\ wk' = [wk EXCEPT ![w].pc = "done",
                        ![w].report = IF wk[w].epCnt > 0
                                      THEN RatDivInt(wk[w].avgRate, wk[w].epCnt)
                                      ELSE <<-1, 1>>]
    /\ UNCHANGED <<distFrame, evalSched>>

\* a worker enters the next collective operation of its statement group
\* (lines 132, 154, 169, 206, 213, 216, 276-278, 289, 303, 334)
DEnter(w) ==
    /\ wk[w].todo # << >>
    /\ wk[w].pend = NoPend
    /\ LET op == Head(wk[w].todo)
           val == CASE op = "all_reduce_sum" -> wk[w].tot
                    [] op = "all_reduce_max" -> wk[w].el
                    [] OTHER -> 0
       IN  wk' = [wk EXCEPT ![w].pend = [op |-> op, val |-> val],
                            ![w].todo = Tail(@),
                            ![w].colls = Append(@, op)]
    /\ UNCHANGED <<distFrame, evalSched>>

\* every worker is in the same collective operation: it completes on all of
\* them, and lines 214 and 216 read tSum and elMax from the results
DComplete ==
    /\ \A w \in Workers : wk[w].pend # NoPend
    /\ \A w \in Workers : wk[w].pend.op = wk[1].pend.op
    /\ LET op == wk[1].pend.op
           r == AllReduce(op, [w \in Workers |-> wk[w].pend.val])
       IN  wk' = [w \in Workers |->
                    [wk[w] EXCEPT !.pend = NoPend,
                                  !.tSum = IF op = "all_reduce_sum" THEN r ELSE @,
                                  !.elMax = IF op = "all_reduce_max" THEN r ELSE @]]
    /\ UNCHANGED <<distFrame, evalSched>>

DistNext ==
    \/ \E w \in Workers :
         \/ DEpochBegin(w)
         \/ DTrainIter(w)
         \/ DTrainEnd(w)
         \/ DTrainReturn(w)
         \/ DEvalIter(w)
         \/ DEvalEnd(w)
         \/ DEvalReturn(w)
         \/ DLoopExit(w)
         \/ DEnter(w)
    \/ DComplete

SpecDist == DistInit /\ [][DistNext]_vars

SpecRate == RateInit /\ [][DistNext]_vars

(***************************************************************************)
(* Properties of trainImpl and train_epoch (Spec).                         *)
(***************************************************************************)
(* plotStats (lines 33-45), on its own: one call over every stats          *)
(* dictionary, limit table and process rank (SpecPlot).                    *)
(***************************************************************************)
\* the keys of a stats dictionary
StatKeys == 1..MaxStats

\* the third argument of plotStats at its call sites (lines 200, 209, 330)
PlotTypes == {"TrainIter", "TrainEpoch"}

\* Python's None and a present number, for dict.get(k, None)
None == [some |-> FALSE, n |-> 0]

Some(n) == [some |-> TRUE, n |-> n]

\* the values a meter puts into stats: a float, a string that spells a number,
\* a float that is NaN, a string that spells no number ("1/10", "0.5G", ...)
StatValues ==
    {[kind |-> "float", n |-> n] : n \in {-1, 1, 3}} \cup
    {[kind |-> "numstr", n |-> 1], [kind |-> "nan", n |-> 0], [kind |-> "text", n |-> 0]}

\* the limits METRICS.PLOT_MAX_LIMITS / PLOT_MIN_LIMITS hold for a key
MaxLimits == {None, Some(1)}

MinLimits == {None, Some(0), Some(2)}

\* a Python float: NaN or a number
NaN == [nan |-> TRUE, n |-> 0]

Num(n) == [nan |-> FALSE, n |-> n]

\* comparisons of floats: every comparison with NaN is False
FloatLt(a, b) == ~a.nan /\ ~b.nan /\ a.n < b.n

\* line 37: float(v); ok = FALSE stands for ValueError
ToFloat(v) ==
    CASE v.kind = "float" -> [ok |-> TRUE, val |-> Num(v.n)]
      [] v.kind = "numstr" -> [ok |-> TRUE, val |-> Num(v.n)]
      [] v.kind = "nan" -> [ok |-> TRUE, val |-> NaN]
      [] OTHER -> [ok |-> FALSE, val |-> NaN]

\* Python's min(a, b) and max(a, b): the first argument unless the second
\* compares smaller (larger)
PyMin(a, b) == IF FloatLt(b, a) THEN b ELSE a

PyMax(a, b) == IF FloatLt(a, b) THEN b ELSE a

\* mutant: the lower limit is applied before the upper one
ClampValueMinFirst(val, maxx, minn) ==
    LET lo == IF minn.some THEN PyMax(val, Num(minn.n)) ELSE val
    IN  IF maxx.some THEN PyMin(lo, Num(maxx.n)) ELSE lo

\* lines 39-42: min(val, maxx) if maxx is not None, then max(val, minn) if minn
\* is not None
ClampValue(val, maxx, minn) ==
    LET hi == IF maxx.some THEN PyMin(val, Num(maxx.n)) ELSE val
    IN  IF minn.some THEN PyMax(hi, Num(minn.n)) ELSE hi

\* stats.items(): the entries in the dictionary's order, the keys distinct
StatsDicts ==
    {q \in UNION {[1..n -> [k : StatKeys, v : StatValues]] : n \in 0..MaxStats} :
        \A i \in 1..(Len(q) - 1) : q[i].k < q[i + 1].k}

\* the variables of the training loop, unused while plotStats is explored
PlotIdle ==
    /\ cfg = [DETECTION_ENABLE |-> FALSE, MULTI_LABEL |-> FALSE, NUM_GPUS |-> 1,
              LONG_CYCLE |-> FALSE, USE_PRECISE_STATS |-> FALSE, MAX_EPOCH |-> 0]
    /\ start_epoch = 0
    /\ lens = [train |-> 1, val |-> 1]
    /\ MainIdle
    /\ wk = << >>
    /\ evalSched = << >>
    /\ elapsedSet = {}

\* line 33: a call plotStats(stats, ite, typ) on some process, with some limits
PlotInit ==
    /\ PlotIdle
    /\ \E master \in BOOLEAN, typ \in PlotTypes,
          stats \in {<<"None">>} \cup {<<"dict", d>> : d \in StatsDicts},
          maxl \in [StatKeys -> MaxLimits], minl \in [StatKeys -> MinLimits] :
         plot = [pc |-> "called", master |-> master, typ |-> typ,
                 none |-> stats[1] = "None",
                 items |-> IF stats[1] = "None" THEN << >> ELSE stats[2],
                 PLOT_MAX_LIMITS |-> maxl, PLOT_MIN_LIMITS |-> minl,
                 i |-> 1, rows |-> << >>]

plotFrame == <<mainVars, wk, evalSched, elapsedSet>>

\* line 34: only the master process with stats that is not None enters the loop
PlotStatsEnter ==
    /\ plot.pc = "called"
    /\ plot' = [plot EXCEPT !.pc = IF plot.master /\ ~plot.none THEN "loop" ELSE "returned"]
    /\ UNCHANGED plotFrame

\* lines 35-45: one entry (k, v): converted, named, clamped and logged, or
\* skipped on ValueError
PlotStatsEntry ==
    /\ plot.pc = "loop"
    /\ plot.i <= Len(plot.items)
    /\ LET k == plot.items[plot.i].k
           f == ToFloat(plot.items[plot.i].v)
           val == ClampValue(f.val, plot.PLOT_MAX_LIMITS[k], plot.PLOT_MIN_LIMITS[k])
       IN  plot' = [plot EXCEPT !.i = @ + 1,
                                !.rows = IF f.ok
                                         THEN Append(@, [name |-> <<plot.typ, k>>, val |-> val])
                                         ELSE @]
    /\ UNCHANGED plotFrame

\* line 35: the entries are exhausted
PlotStatsReturn ==
    /\ plot.pc = "loop"
    /\ plot.i > Len(plot.items)
    /\ plot' = [plot EXCEPT !.pc = "returned"]
    /\ UNCHANGED plotFrame

PlotNext == PlotStatsEnter \/ PlotStatsEntry \/ PlotStatsReturn

SpecPlot == PlotInit /\ [][PlotNext]_vars

(***************************************************************************)
Has(op) == \E i \in DOMAIN trace : trace[i].op = op

RankIn(order, op) == CHOOSE i \in DOMAIN order : order[i] = op

OpsOf(order) == {order[i] : i \in DOMAIN order}

\* the steps of one epoch of trainImpl, in the order the claim gives
EpochOrder ==
    <<"update_long_cycle", "build_trainer", "load_checkpoint", "shuffle_dataset",
      "train_epoch", "train_epoch_end", "calculate_and_update_precise_bn",
      "aggregate_sub_bn_stats", "is_checkpoint_epoch", "save_checkpoint",
      "is_eval_epoch", "eval_epoch", "eval_epoch_end">>

\* the steps every epoch performs; the others depend on the configuration
MandatorySteps ==
    {"shuffle_dataset", "train_epoch", "train_epoch_end", "aggregate_sub_bn_stats",
     "is_checkpoint_epoch", "is_eval_epoch"}

EpochSteps == SelectSeq(trace, LAMBDA e : e.op \in OpsOf(EpochOrder))

\* C1: within an epoch the steps of trainImpl occur in the fixed order
\* update/rebuild/load, shuffle, train_epoch, precise BN, aggregate_sub_bn_stats,
\* checkpoint decision and save, eval decision and eval_epoch: each step is
\* preceded by every unconditional step that comes earlier in that order, the
\* conditional steps occur exactly when their condition holds, so no checkpoint
\* is saved before train_epoch and the BN statistics are finished and no
\* eval_epoch runs before the checkpoint decision.
C1_EpochStepOrder ==
    LET steps == EpochSteps
        rank == [i \in DOMAIN steps |-> RankIn(EpochOrder, steps[i].op)]
        done == {steps[i].op : i \in DOMAIN steps}
    IN  /\ \A i \in 1..(Len(steps) - 1) : rank[i] < rank[i + 1]
        /\ \A i \in DOMAIN steps : \A m \in MandatorySteps :
             RankIn(EpochOrder, m) < rank[i] => m \in done
        /\ "shuffle_dataset" \in done =>
             /\ "update_long_cycle" \in done <=> cfg.LONG_CYCLE
             /\ "build_trainer" \in done <=> changed
             /\ "load_checkpoint" \in done <=> changed
        /\ "aggregate_sub_bn_stats" \in done =>
             ("calculate_and_update_precise_bn" \in done
                <=> (cfg.USE_PRECISE_STATS /\ model.hasBN))
        /\ "calculate_and_update_precise_bn" \in done => "train_epoch_end" \in done
        /\ "is_eval_epoch" \in done => ("save_checkpoint" \in done <=> ckptDue)
        /\ "save_checkpoint" \in done => ckptDue /\ "aggregate_sub_bn_stats" \in done
        /\ "eval_epoch" \in done => evalDue /\ "is_checkpoint_epoch" \in done

\* an epoch in which every step of the order occurred
C1_Witness ==
    /\ pc = "loop"
    /\ \A op \in OpsOf(EpochOrder) : Has(op)

\* the calls of one training iteration the claim lists, in the claim's order
IterOrder ==
    <<"set_lr", "forward", "loss", "check_nan_losses", "zero_grad", "backward",
      "optimizer_step", "all_reduce", "update_stats", "log_iter_stats", "plotStats">>

\* the part of the trace that belongs to train_epoch's loop over the batches
TrainIterCalls ==
    LET upto == IF Has("train_epoch_end")
                THEN CHOOSE i \in DOMAIN trace : trace[i].op = "train_epoch_end"
                ELSE Len(trace)
    IN  SelectSeq(SubSeq(trace, 1, upto),
                  LAMBDA e : e.it >= 0 /\ e.op \in OpsOf(IterOrder))

\* C2: every training iteration performs set_lr, forward, loss, NaN check,
\* zero_grad, backward, optimizer.step, the all-reduce of the metrics (exactly
\* when NUM_GPUS > 1), update_stats, log_iter_stats, plotStats in this order
\* with nothing left out, and iteration i+1 starts (set_lr) only after
\* iteration i has logged, hence after its optimizer step and meter update.
C2_IterationOrder ==
    LET calls == TrainIterCalls
        rank == [i \in DOMAIN calls |-> RankIn(IterOrder, calls[i].op)]
        reduceRank == RankIn(IterOrder, "all_reduce")
    IN  /\ Len(calls) > 0 => calls[1] = Ev("set_lr", 0)
        /\ \A i \in 1..(Len(calls) - 1) :
             \/ /\ calls[i + 1].it = calls[i].it
                /\ \/ rank[i + 1] = rank[i] + 1
                   \/ /\ rank[i] = reduceRank - 1
                      /\ rank[i + 1] = reduceRank + 1
                      /\ cfg.NUM_GPUS = 1
             \/ /\ calls[i + 1].it = calls[i].it + 1
                /\ calls[i].op = "plotStats"
                /\ calls[i + 1].op = "set_lr"
        /\ \A i \in DOMAIN calls : calls[i].op = "all_reduce" => cfg.NUM_GPUS > 1

\* two complete iterations, with the reduction, in one epoch
C2_Witness ==
    /\ cfg.NUM_GPUS > 1
    /\ Ev("all_reduce", 0) \in OpsOf(trace)
    /\ Ev("plotStats", 1) \in OpsOf(trace)

\* C3: when the loss of an iteration is NaN the run is aborted at the NaN check:
\* the check is the last call ever made, so that iteration has no zero_grad,
\* backward, optimizer.step or meter update, and no further iteration, epoch-end
\* statistics, save_checkpoint or eval_epoch follows.
C3_NanLossAborts ==
    loss = "nan" =>
        /\ pc = "aborted"
        /\ abortCause = "nan"
        /\ trace[Len(trace)] = Ev("check_nan_losses", cur_iter)
        /\ \A i \in DOMAIN trace :
             /\ trace[i].op \in {"zero_grad", "backward", "optimizer_step", "update_stats"}
                  => trace[i].it < cur_iter
             /\ trace[i].op \notin {"log_epoch_stats", "train_epoch_end", "save_checkpoint",
                                    "eval_epoch"}

\* the NaN loss arrives in the second iteration of an epoch after the first one
C3_Witness ==
    /\ loss = "nan"
    /\ pc = "aborted"
    /\ cur_iter = 1
    /\ cur_epoch > start_epoch

\* C4: after update_long_cycle reported a change all seven pipeline objects are
\* new and a checkpoint has been loaded into the new model before shuffle_dataset,
\* train_epoch or any optimizer step of the epoch; without a change none of the
\* seven objects is replaced.
C4_RebuildBeforeTraining ==
    /\ changed =>
         /\ \A k \in PipelineObjects : objs[k] # prevObjs[k]
         /\ model.rebuilt
         /\ (Has("shuffle_dataset") \/ Has("train_epoch") \/ Has("optimizer_step")) =>
               /\ model.loaded
               /\ Has("load_checkpoint")
    /\ ~changed => objs = prevObjs
    /\ Has("optimizer_step") => (model.rebuilt => model.loaded)

\* an optimizer step on a pipeline rebuilt in a later epoch than the first
C4_Witness ==
    /\ changed
    /\ cur_epoch > start_epoch
    /\ Has("optimizer_step")

Max(a, b) == IF a >= b THEN a ELSE b

\* C5: the epochs train_epoch is called for are start_epoch, start_epoch + 1, ...
\* in this order, each once and all below MAX_EPOCH; when the loop ends without
\* an abort every epoch from start_epoch to MAX_EPOCH - 1 was trained; with
\* start_epoch >= MAX_EPOCH nothing is called and the loop ends at once.
C5_EpochsTrainedOnce ==
    /\ \A i \in DOMAIN trained :
         trained[i] = start_epoch + i - 1 /\ trained[i] < cfg.MAX_EPOCH
    /\ pc = "done" => Len(trained) = Max(0, cfg.MAX_EPOCH - start_epoch)
    /\ start_epoch >= cfg.MAX_EPOCH =>
         /\ trace = << >>
         /\ trained = << >>
         /\ pc \in {"loop", "done"}

\* a resumed run that trained its remaining epoch and ended
C5_Witness ==
    /\ pc = "done"
    /\ start_epoch = 1
    /\ trained = <<1>>

\* C7: the meters in use are of the kind trainImpl creates for the configuration:
\* AVAMeter with DETECTION.ENABLE, TrainMeter / ValMeter with the logger otherwise.
C7_RebuiltMetersAsInitial ==
    meters = InitialMeters(cfg)

(***************************************************************************)
(* Properties of the distributed run (SpecDist, SpecRate).                 *)
(***************************************************************************)
IsPrefix(a, b) == Len(a) <= Len(b) /\ SubSeq(b, 1, Len(a)) = a

RECURSIVE Repeat(_, _)
Repeat(q, n) == IF n <= 0 THEN << >> ELSE q \o Repeat(q, n - 1)

\* what one training epoch issues: per batch one all_reduce when NUM_GPUS > 1,
\* then all_gather, the sum all-reduce and the max all-reduce
ExpectedTrainColls ==
    Repeat(IF cfg.NUM_GPUS > 1 THEN <<"all_reduce">> ELSE << >>, lens.train) \o
    <<"all_gather", "all_reduce_sum", "all_reduce_max">>

\* what one evaluation epoch issues, by DETECTION.ENABLE, DATA.MULTI_LABEL and
\* NUM_GPUS > 1 alone, then the final all_gather
ExpectedEvalColls ==
    Repeat(IF cfg.NUM_GPUS > 1
           THEN IF cfg.DETECTION_ENABLE
                THEN <<"all_gather_unaligned", "all_gather_unaligned", "all_gather_unaligned">>
                ELSE IF cfg.MULTI_LABEL THEN <<"all_gather">> ELSE <<"all_reduce">>
           ELSE << >>, lens.val) \o
    <<"all_gather">>

RECURSIVE ExpectedRunColls(_)
ExpectedRunColls(e) ==
    IF e >= cfg.MAX_EPOCH THEN << >>
    ELSE ExpectedTrainColls \o
         (IF evalSched[e] = "yes" THEN ExpectedEvalColls ELSE << >>) \o
         ExpectedRunColls(e + 1)

\* C6: every worker issues the same sequence of collective operations, fixed by
\* the configuration, the loader lengths and the epochs alone (per training
\* batch one all_reduce iff NUM_GPUS > 1; per epoch end all_gather, sum
\* all-reduce, max all-reduce in this order; the master-only branches add
\* none), so workers waiting together always wait in the same operation and a
\* finished worker has issued the whole sequence.
C6_SameCollectives ==
    LET expected == ExpectedRunColls(start_epoch)
    IN  /\ \A w \in Workers : IsPrefix(wk[w].colls, expected)
        /\ \A w \in Workers : wk[w].pc = "done" => wk[w].colls = expected
        /\ (\A w \in Workers : wk[w].pend # NoPend) =>
              \A w \in Workers : wk[w].pend.op = wk[1].pend.op
        /\ \A w \in Workers :
              (wk[w].pc = "train_end" /\ wk[w].todo = << >>) =>
                 /\ Len(wk[w].colls) >= 3
                 /\ SubSeq(wk[w].colls, Len(wk[w].colls) - 2, Len(wk[w].colls))
                      = <<"all_gather", "all_reduce_sum", "all_reduce_max">>

\* all workers finished a multi-GPU detection run of two epochs with evaluation
C6_Witness ==
    /\ \A w \in Workers : wk[w].pc = "done" /\ wk[w].epCnt = 2
    /\ cfg.NUM_GPUS > 1
    /\ cfg.DETECTION_ENABLE
    /\ evalSched[0] = "yes"

RECURSIVE RatSum(_)
RatSum(q) == IF q = << >> THEN <<0, 1>> ELSE RatAdd(Head(q), RatSum(Tail(q)))

\* C9: the rate train_epoch returns for an epoch is the sum of all workers'
\* label counts over the largest of all workers' elapsed times, the same on
\* every worker; the 'jobRate' trainImpl reports is the arithmetic mean of the
\* returned rates over exactly the epochs start_epoch .. MAX_EPOCH - 1, and -1
\* when there is none.
C9_JobRate ==
    /\ \A w \in Workers : \A i \in DOMAIN wk[w].rates :
         /\ \A v \in Workers : i \in DOMAIN wk[v].contribs
         /\ RatEq(wk[w].rates[i],
                  <<SumOf([v \in Workers |-> wk[v].contribs[i].tot], Workers),
                    MaxOf([v \in Workers |-> wk[v].contribs[i].el], Workers)>>)
    /\ \A w \in Workers :
         wk[w].pc = "done" =>
           /\ Len(wk[w].rates) = Max(0, cfg.MAX_EPOCH - start_epoch)
           /\ IF wk[w].rates = << >>
              THEN wk[w].report = <<-1, 1>>
              ELSE RatEq(<<wk[w].report[1] * Len(wk[w].rates), wk[w].report[2]>>,
                         RatSum(wk[w].rates))

\* two epochs with different rates, reported by a worker that was neither the
\* only contributor of samples nor the slowest in the first epoch
C9_Witness ==
    /\ wk[2].pc = "done"
    /\ Len(wk[2].rates) = 2
    /\ ~RatEq(wk[2].rates[1], wk[2].rates[2])
    /\ wk[1].contribs[1].el > wk[2].contribs[1].el
    /\ wk[1].bsz # wk[2].bsz

(***************************************************************************)
(* Properties of plotStats (SpecPlot).                                     *)
(***************************************************************************)
\* the entries plotStats has passed whose value converts with float()
ConvertedEntries ==
    SelectSeq(SubSeq(plot.items, 1, plot.i - 1), LAMBDA e : e.v.kind # "text")

\* x clamped from above by the limit hi, then from below by the limit lo, each
\* only if present
ClampedNumber(x, hi, lo) ==
    LET a == IF hi.some /\ x > hi.n THEN hi.n ELSE x
    IN  IF lo.some /\ a < lo.n THEN lo.n ELSE a

\* rows only on the master process with stats that is not None; one row per
\* converted entry, named <typ>_<k>, in the entries' order; none for the others
RowsAsEntries ==
    /\ (~plot.master \/ plot.none) => plot.rows = << >>
    /\ plot.pc = "called" => plot.rows = << >>
    /\ (plot.pc \in {"loop", "returned"} /\ plot.master /\ ~plot.none) =>
         /\ Len(plot.rows) = Len(ConvertedEntries)
         /\ \A j \in DOMAIN plot.rows :
              plot.rows[j].name = <<plot.typ, ConvertedEntries[j].k>>
    /\ (plot.pc = "returned" /\ plot.master /\ ~plot.none) => plot.i = Len(plot.items) + 1

\* the row of an entry whose value converts to a number other than NaN holds
\* that number clamped
RowClamped(j) ==
    LET e == ConvertedEntries[j]
    IN  e.v.kind # "nan" =>
          /\ ~plot.rows[j].val.nan
          /\ plot.rows[j].val.n =
                ClampedNumber(e.v.n, plot.PLOT_MAX_LIMITS[e.k], plot.PLOT_MIN_LIMITS[e.k])

\* the row's value lies between the two limits of its key when both are
\* present and min <= max
RowWithinLimits(j) ==
    LET hi == plot.PLOT_MAX_LIMITS[ConvertedEntries[j].k]
        lo == plot.PLOT_MIN_LIMITS[ConvertedEntries[j].k]
        val == plot.rows[j].val
    IN  (hi.some /\ lo.some /\ lo.n <= hi.n) =>
           (~val.nan /\ lo.n <= val.n /\ val.n <= hi.n)

\* C10 as stated: rows only on the master with stats not None; every entry
\* whose value converts gets exactly one row <typ>_<k> holding v clamped from
\* above by PLOT_MAX_LIMITS[k], then from below by PLOT_MIN_LIMITS[k], so the
\* logged value always lies between the two limits when min <= max; ValueError
\* entries are skipped.
C10_LoggedValueWithinLimits ==
    /\ RowsAsEntries
    /\ (plot.master /\ ~plot.none) =>
         \A j \in DOMAIN plot.rows : RowClamped(j) /\ RowWithinLimits(j)

\* C10, amended: as stated, but the logged value lies between the two limits
\* when min <= max and the converted value is not NaN; a value that converts
\* to NaN is logged as NaN, whatever the limits.
C10_PlotStats ==
    /\ RowsAsEntries
    /\ (plot.master /\ ~plot.none) =>
         \A j \in DOMAIN plot.rows :
            /\ RowClamped(j)
            /\ IF ConvertedEntries[j].v.kind = "nan"
               THEN plot.rows[j].val.nan
               ELSE RowWithinLimits(j)

\* a finished call on the master that logged a NaN next to limits on both
\* sides and lowered a 3 to the upper limit 1
C10_Witness ==
    /\ plot.pc = "returned" /\ plot.master /\ ~plot.none
    /\ Len(plot.items) = 2 /\ Len(plot.rows) = 2
    /\ plot.items[1].v.kind = "nan"
    /\ plot.PLOT_MAX_LIMITS[plot.items[1].k] = Some(1)
    /\ plot.PLOT_MIN_LIMITS[plot.items[1].k] = Some(0)
    /\ plot.rows[1].val.nan
    /\ plot.items[2].v = [kind |-> "float", n |-> 3]
    /\ plot.PLOT_MAX_LIMITS[plot.items[2].k] = Some(1)
    /\ plot.rows[2].val = Num(1)

(***************************************************************************)
(* Properties of the precise BN statistics (SpecBN).                       *)
(***************************************************************************)
\* the positions in the trace at which op was called
CallsOf(op) == {i \in DOMAIN trace : trace[i].op = op}

\* C11: in an epoch the precise-BN recalibration runs if and only if
\* BN.USE_PRECISE_STATS is set and the model has a BN module, after train_epoch
\* of that epoch has returned; it requests min(BN.NUM_BATCHES_PRECISE,
\* len(precise_bn_loader)) iterations, never more than the loader holds; and
\* aggregate_sub_bn_stats is called exactly once per epoch, after it, whether
\* or not the recalibration ran.
C11_PreciseBN ==
    LET bns == CallsOf("calculate_and_update_precise_bn")
        aggs == CallsOf("aggregate_sub_bn_stats")
        ends == CallsOf("train_epoch_end")
        epochPastBN == ends # {} /\ pc \in {"ckpt", "evalq", "eval", "eval_iter", "loop", "done"}
    IN  /\ Cardinality(bns) <= 1
        /\ Cardinality(aggs) <= 1
        /\ \A b \in bns : \E t \in ends : t < b
        /\ \A a \in aggs : (\E t \in ends : t < a) /\ (\A b \in bns : b < a)
        /\ epochPastBN =>
             /\ Cardinality(aggs) = 1
             /\ bns # {} <=> (cfg.USE_PRECISE_STATS /\ model.hasBN)
        /\ bns # {} => (cfg.USE_PRECISE_STATS /\ model.hasBN)
        /\ IF bns # {}
           THEN /\ precise.num_iters <= precise.len
                /\ precise.num_iters <= precise.NUM_BATCHES_PRECISE
                /\ precise.num_iters \in {precise.len, precise.NUM_BATCHES_PRECISE}
           ELSE precise.num_iters = 0

\* an epoch on a rebuilt pipeline in which the recalibration ran with fewer
\* batches in the loader than BN.NUM_BATCHES_PRECISE
C11_Witness ==
    /\ pc = "loop"
    /\ Has("calculate_and_update_precise_bn")
    /\ Has("aggregate_sub_bn_stats")
    /\ Has("build_trainer")
    /\ precise.len < precise.NUM_BATCHES_PRECISE
    /\ precise.num_iters = precise.len

(***************************************************************************)
(* Properties of the meter calls (Spec).                                   *)
(***************************************************************************)
MeterOps ==
    {"iter_tic", "iter_toc", "update_stats", "log_iter_stats", "log_epoch_stats", "reset"}

\* the meter calls of the trace from position from on, by name
MeterCallsFrom(from) ==
    LET part == SelectSeq(SubSeq(trace, from, Len(trace)), LAMBDA e : e.op \in MeterOps)
    IN  [i \in DOMAIN part |-> part[i].op]

\* the calls on train_meter and on val_meter in the current epoch
TrainMeterCalls ==
    IF ~Has("train_epoch") THEN << >>
    ELSE LET b == CHOOSE i \in DOMAIN trace : trace[i].op = "train_epoch"
             all == MeterCallsFrom(b)
         IN  IF Has("eval_epoch")
             THEN SubSeq(all, 1, Len(all) - Len(MeterCallsFrom(
                          CHOOSE i \in DOMAIN trace : trace[i].op = "eval_epoch")))
             ELSE all

ValMeterCalls ==
    IF ~Has("eval_epoch") THEN << >>
    ELSE MeterCallsFrom(CHOOSE i \in DOMAIN trace : trace[i].op = "eval_epoch")

\* an epoch of n batches with balanced calls: one iter_tic, per batch iter_toc,
\* update_stats, log_iter_stats, iter_tic, then log_epoch_stats and reset
BalancedCalls(n) ==
    <<"iter_tic">> \o
    Repeat(<<"iter_toc", "update_stats", "log_iter_stats", "iter_tic">>, n) \o
    <<"log_epoch_stats", "reset">>

\* an epoch of n batches that neither stops the timer nor updates the meter
UntimedCalls(n) ==
    <<"iter_tic">> \o Repeat(<<"log_iter_stats", "iter_tic">>, n) \o
    <<"log_epoch_stats", "reset">>

\* the calls made so far are the beginning of the expected ones, all of them
\* once the epoch function has returned, and a meter is reset when its epoch
\* function is called
MeterCallsAre(trainExpected, valExpected) ==
    /\ IsPrefix(TrainMeterCalls, trainExpected)
    /\ Has("train_epoch_end") => TrainMeterCalls = trainExpected
    /\ IsPrefix(ValMeterCalls, valExpected)
    /\ Has("eval_epoch_end") => ValMeterCalls = valExpected
    /\ pc = "train" => meterUse.train_meter = "reset"
    /\ pc = "eval" => meterUse.val_meter = "reset"

\* C12 as stated: in every configuration branch of train_epoch and eval_epoch
\* the epoch starts with one iter_tic, every iteration performs one iter_toc,
\* one update_stats, one log_iter_stats and one iter_tic in this order, and
\* after the last iteration log_epoch_stats and reset are called once each, so
\* that each epoch starts from a reset meter.
C12_MeterCallsBalanced ==
    MeterCallsAre(BalancedCalls(lens.train), BalancedCalls(lens.val))

\* C12, amended: as stated for train_epoch and for eval_epoch's detection and
\* single-label branches; in eval_epoch without DETECTION.ENABLE and with
\* DATA.MULTI_LABEL an iteration performs neither iter_toc nor update_stats,
\* only log_iter_stats and iter_tic.
C12_MeterCalls ==
    MeterCallsAre(BalancedCalls(lens.train),
                  IF ~cfg.DETECTION_ENABLE /\ cfg.MULTI_LABEL
                  THEN UntimedCalls(lens.val)
                  ELSE BalancedCalls(lens.val))

\* a finished epoch of two training batches and an evaluation in the
\* multi-label branch
C12_Witness ==
    /\ pc = "loop"
    /\ Has("eval_epoch_end")
    /\ ~cfg.DETECTION_ENABLE /\ cfg.MULTI_LABEL
    /\ lens.train = 2
    /\ Len(TrainMeterCalls) = 11
    /\ Len(ValMeterCalls) = 3 + 2 * lens.val

(***************************************************************************)
(* Properties of the sample indices handed to plotStats (SpecIte).         *)
(***************************************************************************)
\* within an epoch the index of an iteration is the one before plus btch, and
\* the epoch-level index is the index of the epoch's last iteration
IndexWithinEpoch(s) ==
    /\ (s.kind = "iter" /\ s.prevKind = "iter") => s.last = s.prev + btch
    /\ (s.kind = "iter" /\ s.prevKind = "none") => s.last > 0
    /\ s.kind = "epoch" => (s.prevKind = "iter" /\ s.last = s.prev)

\* C13 as stated: for the training and for the validation series the index
\* grows by btch per iteration, the epoch-level index equals the index of the
\* last iteration, and the first index of a later epoch is greater than the
\* epoch-level index of the epoch before, also across a schedule change that
\* alters the loader length or the batch size.
C13_IndexIncreasing ==
    \A name \in {"train", "val"} :
       LET s == ite[name]
       IN  /\ IndexWithinEpoch(s)
           /\ (s.kind = "iter" /\ s.prevKind = "epoch") => s.last > s.prev

\* C13, amended: as stated, but the first index of a later epoch is greater
\* than the epoch-level index of the epoch before provided dSize has not become
\* smaller in between.
C13_IndexIncreasingUnlessSmaller ==
    \A name \in {"train", "val"} :
       LET s == ite[name]
       IN  /\ IndexWithinEpoch(s)
           /\ (s.kind = "iter" /\ s.prevKind = "epoch" /\ s.dSize >= s.prevDSize) =>
                 s.last > s.prev

\* the first iteration of an epoch after a rebuild that changed the batch size
\* and made dSize larger, with an evaluation logged before
C13_Witness ==
    /\ ite.train.kind = "iter" /\ ite.train.prevKind = "epoch"
    /\ ite.train.dSize > ite.train.prevDSize
    /\ ite.train.last > ite.train.prev
    /\ model.rebuilt
    /\ ite.val.kind = "epoch"
    /\ ite.val.dSize # ite.train.dSize

(***************************************************************************)
(* Properties of the model's mode (Spec).                                  *)
(***************************************************************************)
\* the calls that change parameters or optimizer state
UpdateOps == {"zero_grad", "backward", "optimizer_step"}

\* C14: the model is in train mode whenever optimizer.step is about to be or has
\* just been called and whenever the precise-BN recalibration is about to run
\* or has just run, also in an epoch after an eval_epoch and on a rebuilt
\* model; it is in eval mode during every iteration of eval_epoch; and nothing
\* eval_epoch calls is zero_grad, backward or optimizer.step.
C14_ModeConsistent ==
    /\ pc \in {"backward", "stats"} => model.mode = "train"
    /\ pc \in {"bn", "ckpt"} => model.mode = "train"
    /\ pc = "eval_iter" => model.mode = "eval"
    /\ LET evals == CallsOf("eval_epoch")
            trains == CallsOf("model_train")
        IN  \A j \in DOMAIN trace :
              /\ trace[j].op \in UpdateOps => \A i \in evals : j < i
              /\ trace[j].op \in UpdateOps \cup {"calculate_and_update_precise_bn"} =>
                    \E i \in trains : i < j

\* the second epoch of a run, on a rebuilt model: optimizer steps and the
\* recalibration are done and eval_epoch has passed its last batch
C14_Witness ==
    /\ pc = "eval_iter"
    /\ cur_iter = lens.val
    /\ model.mode = "eval"
    /\ model.rebuilt
    /\ Len(trained) = 2
    /\ Has("optimizer_step")
    /\ Has("calculate_and_update_precise_bn")
    /\ \E i \in DOMAIN trace : \E j \in DOMAIN trace :
         i < j /\ trace[i].op = "eval_epoch" /\ trace[j].op = "forward"

====
